---- MODULE Spec2Model ----
(***************************************************************************)
(* A model of intellij-to-openrewrite: the conversion of IntelliJ          *)
(* migration maps (XML) into OpenRewrite recipes (YAML), src/src/rewrite.ts,*)
(* and of the GitHub-action adapter that calls it, src/src/main.ts.        *)
(*                                                                         *)
(* Strings the code inspects character by character (file names, declared  *)
(* names, recipe names) are sequences of one-character strings, one        *)
(* element per UTF-16 code unit, as String.prototype.replace and .length   *)
(* see them.  Strings the code only copies (old and new type names, fixed  *)
(* texts) are TLA+ strings.                                                *)
(***************************************************************************)
EXTENDS Naturals, Sequences, FiniteSets, TLC

VARIABLES
    tree,            \* the input directory: a sequence of directory entries
    outExists,       \* whether the output directory exists
    outFiles,        \* the output directory: file name -> [recipe, complete]
    pc,              \* where run / convertMigrationMapsToOpenRewrite stands
    xmlFiles,        \* rewrite.ts:46, the list findXmlFiles returned
    idx,             \* the position of the for loop of rewrite.ts:48 in xmlFiles
    convertedCount,  \* rewrite.ts:38
    outcomes,        \* per processed file, how its loop iteration ended
    writes,          \* every writeFile call that completed, in order
    thrown,          \* the value the core call (or getInput) threw into run's catch
    setFailedCalls,  \* the messages run passed to core.setFailed, in order
    setOutputCalls,  \* the (name, value) pairs run passed to core.setOutput
    mkdirCalls,      \* how many times convert has called mkdir (rewrite.ts:42)
    sx, sy, sz       \* the sanitizer alone: an input, its image, the image's image

vars == <<tree, outExists, outFiles, pc, xmlFiles, idx, convertedCount, outcomes,
          writes, thrown, setFailedCalls, setOutputCalls, mkdirCalls, sx, sy, sz>>

pipeVars == <<tree, outExists, outFiles, pc, xmlFiles, idx, convertedCount,
              outcomes, writes, thrown, setFailedCalls, setOutputCalls, mkdirCalls>>

sanVars == <<sx, sy, sz>>

(***************************************************************************)
(* Bounds of the model.                                                    *)
(***************************************************************************)
\* the longest entry list of a descriptor
MaxEntries == 3

\* the most directory entries of the input root
MaxFiles == 2

\* the longest string given to the sanitizer alone
MaxNameLen == 3

(***************************************************************************)
(* Characters.                                                             *)
(***************************************************************************)
UpperAZ ==
    {"A", "B", "C", "D", "E", "F", "G", "H", "I", "J", "K", "L", "M",
     "N", "O", "P", "Q", "R", "S", "T", "U", "V", "W", "X", "Y", "Z"}

LowerAZ ==
    {"a", "b", "c", "d", "e", "f", "g", "h", "i", "j", "k", "l", "m",
     "n", "o", "p", "q", "r", "s", "t", "u", "v", "w", "x", "y", "z"}

Digits09 == {"0", "1", "2", "3", "4", "5", "6", "7", "8", "9"}

\* String.prototype.toLowerCase on one code unit, for the letters file names use
LowerOf(c) ==
    CASE c = "X" -> "x"
      [] c = "M" -> "m"
      [] c = "L" -> "l"
      [] c = "B" -> "b"
      [] c = "T" -> "t"
      [] OTHER -> c

ToLowerCase(s) == [i \in 1..Len(s) |-> LowerOf(s[i])]

DotXml == <<".", "x", "m", "l">>

DotYml == <<".", "y", "m", "l">>

\* "com.twelveiterations." of rewrite.ts:128
NamespacePrefix ==
    <<"c", "o", "m", ".", "t", "w", "e", "l", "v", "e", "i", "t", "e", "r", "a",
      "t", "i", "o", "n", "s", ".">>

(***************************************************************************)
(* The name sanitizer: replace(/[^a-zA-Z0-9-_]/g, '-').                    *)
(***************************************************************************)
\* the characters the class [^a-zA-Z0-9-_] does not match
SafeChar(c) == c \in UpperAZ \cup LowerAZ \cup Digits09 \cup {"-", "_"}

\* a faulty variant: the pattern with a + (a run becomes one dash)
RECURSIVE SanitizeCollapsing(_)
SanitizeCollapsing(s) ==
    IF s = <<>> THEN <<>>
    ELSE IF SafeChar(Head(s)) THEN <<Head(s)>> \o SanitizeCollapsing(Tail(s))
    ELSE IF Len(s) > 1 /\ ~SafeChar(s[2]) THEN SanitizeCollapsing(Tail(s))
    ELSE <<"-">> \o SanitizeCollapsing(Tail(s))

Sanitize(s) == [i \in 1..Len(s) |-> IF SafeChar(s[i]) THEN s[i] ELSE "-"]

(***************************************************************************)
(* path.extname and path.basename on the last component of a path.         *)
(***************************************************************************)
\* the position of the last "." of a name, 0 when it has none
LastDot(n) ==
    LET dots == {i \in 1..Len(n) : n[i] = "."}
    IN  IF dots = {} THEN 0 ELSE CHOOSE i \in dots : \A j \in dots : j <= i

\* path.extname: from the last dot on; empty for no dot and for a leading dot
ExtName(n) ==
    IF LastDot(n) <= 1 THEN <<>> ELSE SubSeq(n, LastDot(n), Len(n))

EndsWith(n, suffix) ==
    /\ Len(n) >= Len(suffix)
    /\ SubSeq(n, Len(n) - Len(suffix) + 1, Len(n)) = suffix

\* path.basename(path, suffix): the last component, less the suffix when the
\* component ends with exactly it (compared as is) and is longer than it
Basename(path, suffix) ==
    LET n == path[Len(path)]
    IN  IF Len(n) > Len(suffix) /\ EndsWith(n, suffix)
        THEN SubSeq(n, 1, Len(n) - Len(suffix))
        ELSE n

(***************************************************************************)
(* The parsed document (the value parser.parse returns).                   *)
(*   kind : "malformed" (parse throws), "other" (no migrationMap root),    *)
(*          "map"                                                          *)
(*   entry: what migrationMap.entry is: "undefined" (no entry element),    *)
(*          "empty" (one entry element without attributes: the parser      *)
(*          gives ""), "object" (one entry), "array" (two or more)         *)
(*   items: the entries                                                    *)
(*   name : "none" (no name element), "novalue" (a name element without a  *)
(*          value attribute), "value"                                      *)
(*   value: the value attribute                                            *)
(***************************************************************************)
\* migrationMap.name?._value of rewrite.ts:104; <<"undefined">> marks undefined
Undefined == <<"undefined">>

MapNameOf(doc) == IF doc.name = "value" THEN doc.value ELSE Undefined

\* JavaScript truthiness of a string-or-undefined: neither undefined nor ""
Truthy(v) == v # Undefined /\ v # <<>>

\* a faulty variant: the single entry object is taken for a list of none
NormalizeEntriesArrayOnly(doc) == IF doc.entry = "array" THEN doc.items ELSE <<>>

\* rewrite.ts:93-95: an array as it is, a single object as a list of one
NormalizeEntries(doc) ==
    IF doc.entry = "array" THEN doc.items ELSE <<doc.items[1]>>

\* a faulty variant: every entry is kept
FilterKeepingAll(entries) == entries

\* rewrite.ts:98: entries.filter(entry => entry._type === 'class')
FilterClassEntries(entries) == SelectSeq(entries, LAMBDA e : e._type = "class")

\* rewrite.ts:89: the document is no migrationMap, or has no (truthy) entry
NotAMigrationMap(doc) ==
    doc.kind # "map" \/ doc.entry \in {"undefined", "empty"}

\* a faulty variant: the declared name is ignored
GenerateRecipeNameFromFile(xmlFilePath, mapName) ==
    Sanitize(Basename(xmlFilePath, DotXml))

\* rewrite.ts:116-123
GenerateRecipeName(xmlFilePath, mapName) ==
    IF Truthy(mapName)
    THEN Sanitize(mapName)
    ELSE Sanitize(Basename(xmlFilePath, DotXml))

\* rewrite.ts:125-138: the recipe object; it has no tags field
CreateOpenRewriteRecipe(name, entries) ==
    [type |-> "specs.openrewrite.org/v1beta/recipe",
     name |-> NamespacePrefix \o name,
     displayName |-> name,
     description |-> "Apply package and class name migrations",
     recipeList |->
        [i \in 1..Len(entries) |->
            [type |-> "org.openrewrite.java.ChangeType",
             oldFullyQualifiedTypeName |-> entries[i]._oldName,
             newFullyQualifiedTypeName |-> entries[i]._newName,
             ignoreDefinition |-> TRUE]]]

\* rewrite.ts:108: join(outputDirectory, `${recipeName}.yml`), as a file name
\* of the output directory (a sanitized name holds no separator and no dot)
OutputName(recipeName) == recipeName \o DotYml

(***************************************************************************)
(* The file system the program runs on.                                    *)
(* A directory is a sequence of entries in the order readdir lists them:   *)
(*   [name, isDir, kids (a directory's entries), doc (what parsing a       *)
(*    file's text gives)].                                                 *)
(***************************************************************************)
MkDoc(kind, entry, items, name, value) ==
    [kind |-> kind, entry |-> entry, items |-> items, name |-> name, value |-> value]

FileEntry(name, doc) ==
    [name |-> name, isDir |-> FALSE, isFile |-> TRUE, kids |-> <<>>, doc |-> doc]

\* a symbolic link to a regular file: Dirent.isDirectory() and Dirent.isFile()
\* are both false for it, and readFile follows it
LinkEntry(name, doc) ==
    [name |-> name, isDir |-> FALSE, isFile |-> FALSE, kids |-> <<>>, doc |-> doc]

OtherRootDoc == MkDoc("other", "undefined", <<>>, "none", <<>>)

MalformedDoc == MkDoc("malformed", "undefined", <<>>, "none", <<>>)

DirEntry(name, kids) ==
    [name |-> name, isDir |-> TRUE, isFile |-> FALSE, kids |-> kids, doc |-> OtherRootDoc]

\* a faulty variant: directories are not descended into
RECURSIVE FindXmlFilesFlat(_, _)
FindXmlFilesFlat(directory, entries) ==
    IF entries = <<>> THEN <<>>
    ELSE LET entry == Head(entries)
             fullPath == Append(directory, entry.name)
             found == IF ~entry.isDir /\ ToLowerCase(ExtName(entry.name)) = DotXml
                      THEN <<fullPath>>
                      ELSE <<>>
         IN  found \o FindXmlFilesFlat(directory, Tail(entries))

\* rewrite.ts:62-76, on a directory's entries; `directory` is the path so far.
\* A file is kept when the lower-cased extension of its name is ".xml".
RECURSIVE FindXmlFiles(_, _)
FindXmlFiles(directory, entries) ==
    IF entries = <<>> THEN <<>>
    ELSE LET entry == Head(entries)
             fullPath == Append(directory, entry.name)
             found == IF entry.isDir THEN FindXmlFiles(fullPath, entry.kids)
                      ELSE IF ToLowerCase(ExtName(entry.name)) = DotXml
                           THEN <<fullPath>>
                           ELSE <<>>
         IN  found \o FindXmlFiles(directory, Tail(entries))

\* readFile + parser.parse (rewrite.ts:79-86): the document of the file at a path
RECURSIVE DocAt(_, _)
DocAt(entries, path) ==
    LET entry == CHOOSE e \in {entries[i] : i \in 1..Len(entries)} : e.name = Head(path)
    IN  IF Len(path) = 1 THEN entry.doc ELSE DocAt(entry.kids, Tail(path))

(***************************************************************************)
(* The inputs: entries, declared names, file names, documents, trees.      *)
(***************************************************************************)
EntryA == [_oldName |-> "com.example.OldA", _newName |-> "com.example.NewA", _type |-> "class"]

EntryP == [_oldName |-> "com.example.oldpkg", _newName |-> "com.example.newpkg", _type |-> "package"]

EntryB == [_oldName |-> "com.example.OldB", _newName |-> "com.example.NewB", _type |-> "class"]

EntryK == [_oldName |-> "com.example.OldK", _newName |-> "com.example.NewK", _type |-> "Class"]

Entries == {EntryA, EntryP, EntryB, EntryK}

SeqsUpTo(S, n) == UNION {[1..k -> S] : k \in 0..n}

\* "T M", "a.b" and the empty value
DeclaredValues == {<<"T", " ", "M">>, <<"a", ".", "b">>, <<>>}

\* a.xml, b.XML, c.d.xml
XmlNames == {<<"a", ".", "x", "m", "l">>, <<"b", ".", "X", "M", "L">>,
             <<"c", ".", "d", ".", "x", "m", "l">>}

\* the documents of a migrationMap root, as the parser shapes them: no entry
\* element, an attribute-less one, one entry (an object), several (an array)
MapDocs ==
    LET shapes == {<<"undefined", <<>>>>, <<"empty", <<>>>>}
                  \cup {<<"object", <<e>>>> : e \in Entries}
                  \cup {<<"array", s>> : s \in {t \in SeqsUpTo(Entries, MaxEntries) : Len(t) >= 2}}
        names == {<<"none", <<>>>>, <<"novalue", <<>>>>}
                 \cup {<<"value", v>> : v \in DeclaredValues}
    IN  {MkDoc("map", sh[1], sh[2], nm[1], nm[2]) : sh \in shapes, nm \in names}

Docs == MapDocs \cup {OtherRootDoc, MalformedDoc}

\* one descriptor of any shape, alone in the input root
SingleFileTrees == {<<FileEntry(n, d)>> : n \in XmlNames, d \in Docs}

NamedDoc == MkDoc("map", "object", <<EntryA>>, "value", <<"T", " ", "M">>)

UnnamedDoc == MkDoc("map", "array", <<EntryA, EntryP>>, "none", <<>>)

PackageOnlyDoc == MkDoc("map", "object", <<EntryP>>, "none", <<>>)

SubDirName == <<"s", "u", "b">>

\* the entries of the larger trees: six files and five directories, one of
\* them holding a symbolic link l.xml and a file named .xml
FewEntries ==
    LET a == FileEntry(<<"a", ".", "x", "m", "l">>, NamedDoc)
        b == FileEntry(<<"b", ".", "X", "M", "L">>, UnnamedDoc)
        c == FileEntry(<<"c", ".", "x", "m", "l">>, PackageOnlyDoc)
        d == FileEntry(<<"d", ".", "x", "m", "l">>, OtherRootDoc)
        e == FileEntry(<<"e", ".", "x", "m", "l">>, MalformedDoc)
        t == FileEntry(<<"t", ".", "t", "x", "t">>, NamedDoc)
        b2 == FileEntry(<<"b", ".", "X", "M", "L">>, NamedDoc)
    IN  {a, b, c, d, e, t,
         DirEntry(SubDirName, <<>>),
         DirEntry(SubDirName, <<b2>>),
         DirEntry(SubDirName, <<t, DirEntry(SubDirName, <<a>>)>>),
         DirEntry(<<"x", ".", "x", "m", "l">>, <<c, a>>),
         DirEntry(<<"l", "n", "k">>,
                  <<LinkEntry(<<"l", ".", "x", "m", "l">>, UnnamedDoc),
                    FileEntry(DotXml, NamedDoc)>>)}

\* up to MaxFiles of them, no name twice in the directory, in any order
FewFileTrees ==
    {t \in SeqsUpTo(FewEntries, MaxFiles) :
        \A i, j \in 1..Len(t) : i # j => t[i].name # t[j].name}

Trees == SingleFileTrees \cup FewFileTrees

\* a recipe file an earlier run left in the output directory, as T-M.yml
StaleFile ==
    [recipe |-> CreateOpenRewriteRecipe(<<"T", "-", "M">>, <<EntryB>>), complete |-> TRUE]

StaleName == OutputName(<<"T", "-", "M">>)

NoFiles == [n \in {} |-> StaleFile]

NoThrow == [kind |-> "none", message |-> ""]

Init ==
    /\ tree \in Trees
    /\ outExists \in BOOLEAN
    /\ outFiles \in (IF outExists THEN {NoFiles, [n \in {StaleName} |-> StaleFile]}
                     ELSE {NoFiles})
    /\ pc = "start"
    /\ xmlFiles = <<>>
    /\ idx = 1
    /\ convertedCount = 0
    /\ outcomes = <<>>
    /\ writes = <<>>
    /\ thrown = NoThrow
    /\ setFailedCalls = <<>>
    /\ setOutputCalls = <<>>
    /\ mkdirCalls = 0
    /\ sx = <<>> /\ sy = <<>> /\ sz = <<>>

(***************************************************************************)
(* run (main.ts:31-53) and convertMigrationMapsToOpenRewrite               *)
(* (rewrite.ts:34-60), one action per step and per way the step can end.   *)
(***************************************************************************)
\* the Error core.getInput throws for a required input that is not supplied
InputError == [kind |-> "Error", message |-> "Input required and not supplied: input_directory"]

\* the Errors mkdir and readdir reject with
FsErrors ==
    {[kind |-> "Error", message |-> "EACCES: permission denied"],
     [kind |-> "Error", message |-> "ENOENT: no such file or directory"]}

\* a rejection value for which `error instanceof Error` is false: a thrown
\* string or plain object, or an Error object of another realm
ForeignRejection == [kind |-> "other", message |-> "EIO: i/o error"]

\* main.ts:33-38: both inputs are read
GetInputs ==
    /\ pc = "start"
    /\ pc' = "ensureOut"
    /\ UNCHANGED <<tree, mkdirCalls, outExists, outFiles, xmlFiles, idx, convertedCount,
                   outcomes, writes, thrown, setFailedCalls, setOutputCalls>>

\* main.ts:33-38: a required input is missing and getInput throws
GetInputsThrows ==
    /\ pc = "start"
    /\ thrown' = InputError
    /\ pc' = "caught"
    /\ UNCHANGED <<tree, mkdirCalls, outExists, outFiles, xmlFiles, idx, convertedCount,
                   outcomes, writes, setFailedCalls, setOutputCalls>>

\* rewrite.ts:41: existsSync(outputDirectory) is true, mkdir is skipped
OutputDirectoryExists ==
    /\ pc = "ensureOut"
    /\ outExists
    /\ pc' = "find"
    /\ UNCHANGED <<tree, mkdirCalls, outExists, outFiles, xmlFiles, idx, convertedCount,
                   outcomes, writes, thrown, setFailedCalls, setOutputCalls>>

\* a faulty variant: the missing directory is not created
MkdirForgotten ==
    /\ pc = "ensureOut"
    /\ ~outExists
    /\ pc' = "find"
    /\ UNCHANGED <<tree, mkdirCalls, outExists, outFiles, xmlFiles, idx, convertedCount,
                   outcomes, writes, thrown, setFailedCalls, setOutputCalls>>

\* rewrite.ts:41-43: mkdir(outputDirectory, { recursive: true }) succeeds
MkdirOutputDirectory ==
    /\ pc = "ensureOut"
    /\ ~outExists
    /\ outExists' = TRUE
    /\ mkdirCalls' = mkdirCalls + 1
    /\ pc' = "find"
    /\ UNCHANGED <<tree, outFiles, xmlFiles, idx, convertedCount,
                   outcomes, writes, thrown, setFailedCalls, setOutputCalls>>

\* rewrite.ts:42: mkdir rejects; the rejection leaves convert and reaches run
MkdirFails ==
    /\ pc = "ensureOut"
    /\ ~outExists
    /\ \E e \in FsErrors \cup {ForeignRejection} : thrown' = e
    /\ mkdirCalls' = mkdirCalls + 1
    /\ pc' = "caught"
    /\ UNCHANGED <<tree, outExists, outFiles, xmlFiles, idx, convertedCount,
                   outcomes, writes, setFailedCalls, setOutputCalls>>

\* rewrite.ts:46: findXmlFiles returns the list
FindFiles ==
    /\ pc = "find"
    /\ xmlFiles' = FindXmlFiles(<<>>, tree)
    /\ idx' = 1
    /\ pc' = "loop"
    /\ UNCHANGED <<tree, mkdirCalls, outExists, outFiles, convertedCount,
                   outcomes, writes, thrown, setFailedCalls, setOutputCalls>>

\* rewrite.ts:64: a readdir of the walk rejects; the rejection reaches run
ReaddirFails ==
    /\ pc = "find"
    /\ \E e \in FsErrors \cup {ForeignRejection} : thrown' = e
    /\ pc' = "caught"
    /\ UNCHANGED <<tree, mkdirCalls, outExists, outFiles, xmlFiles, idx, convertedCount,
                   outcomes, writes, setFailedCalls, setOutputCalls>>

InLoop == pc = "loop" /\ idx <= Len(xmlFiles)

CurrentDoc == DocAt(tree, xmlFiles[idx])

\* a faulty variant: the count goes up whatever convertXmlFile returned
CountAlways(converted, count) == count + 1

\* rewrite.ts:51-53
CountAfter(converted, count) == IF converted THEN count + 1 ELSE count

\* a faulty variant: the catch block rethrows
PcAfterCatchRethrow == "caught"

\* rewrite.ts:54-56: the catch block logs and the loop goes on
PcAfterCatch == "loop"

\* one iteration that ends in the catch block of rewrite.ts:54
FileFails(how) ==
    /\ outcomes' = Append(outcomes, how)
    /\ idx' = idx + 1
    /\ pc' = PcAfterCatch
    /\ UNCHANGED <<tree, mkdirCalls, outExists, xmlFiles, convertedCount, writes, thrown,
                   setFailedCalls, setOutputCalls>>

\* one iteration in which convertXmlFile returns false
FileSkipped(how) ==
    /\ outcomes' = Append(outcomes, how)
    /\ idx' = idx + 1
    /\ convertedCount' = CountAfter(FALSE, convertedCount)
    /\ UNCHANGED <<tree, mkdirCalls, outExists, outFiles, pc, xmlFiles, writes, thrown,
                   setFailedCalls, setOutputCalls>>

\* rewrite.ts:79: readFile rejects
ConvertReadFails ==
    /\ InLoop
    /\ FileFails("readError")
    /\ UNCHANGED outFiles

\* rewrite.ts:86: parser.parse throws on the file's text
ConvertParseThrows ==
    /\ InLoop
    /\ CurrentDoc.kind = "malformed"
    /\ FileFails("parseError")
    /\ UNCHANGED outFiles

\* rewrite.ts:89-91
ConvertNotAMigrationMap ==
    /\ InLoop
    /\ CurrentDoc.kind # "malformed"
    /\ NotAMigrationMap(CurrentDoc)
    /\ FileSkipped("notMap")

\* rewrite.ts:93-102
ConvertNoClassEntries ==
    /\ InLoop
    /\ CurrentDoc.kind # "malformed"
    /\ ~NotAMigrationMap(CurrentDoc)
    /\ Len(FilterClassEntries(NormalizeEntries(CurrentDoc))) = 0
    /\ FileSkipped("noClass")

HasClassEntries ==
    /\ InLoop
    /\ CurrentDoc.kind # "malformed"
    /\ ~NotAMigrationMap(CurrentDoc)
    /\ Len(FilterClassEntries(NormalizeEntries(CurrentDoc))) # 0

\* rewrite.ts:104-105
CurrentRecipeName == GenerateRecipeName(xmlFiles[idx], MapNameOf(CurrentDoc))

CurrentRecipe ==
    CreateOpenRewriteRecipe(CurrentRecipeName,
                            FilterClassEntries(NormalizeEntries(CurrentDoc)))

WithFile(files, name, content) ==
    [n \in DOMAIN files \cup {name} |-> IF n = name THEN content ELSE files[n]]

\* rewrite.ts:104-113: the recipe is written, convertXmlFile returns true
ConvertWrites ==
    /\ HasClassEntries
    /\ outFiles' = WithFile(outFiles, OutputName(CurrentRecipeName),
                            [recipe |-> CurrentRecipe, complete |-> TRUE])
    /\ writes' = Append(writes, [src |-> idx, name |-> OutputName(CurrentRecipeName),
                                 recipe |-> CurrentRecipe])
    /\ outcomes' = Append(outcomes, "written")
    /\ idx' = idx + 1
    /\ convertedCount' = CountAfter(TRUE, convertedCount)
    /\ UNCHANGED <<tree, mkdirCalls, outExists, pc, xmlFiles, thrown, setFailedCalls, setOutputCalls>>

\* rewrite.ts:110: writeFile rejects before the file is opened for writing
\* (nothing changes) or after (the file is left with part of the text)
ConvertWriteFails ==
    /\ HasClassEntries
    /\ \/ UNCHANGED outFiles
       \/ outFiles' = WithFile(outFiles, OutputName(CurrentRecipeName),
                               [recipe |-> CurrentRecipe, complete |-> FALSE])
    /\ FileFails("writeError")

\* rewrite.ts:59: the loop is over, convert returns convertedCount
CoreReturns ==
    /\ pc = "loop"
    /\ idx > Len(xmlFiles)
    /\ pc' = "returned"
    /\ UNCHANGED <<tree, mkdirCalls, outExists, outFiles, xmlFiles, idx, convertedCount,
                   outcomes, writes, thrown, setFailedCalls, setOutputCalls>>

\* a faulty variant: the count is reported whatever it is
ReportAlwaysOutput(count) ==
    /\ setOutputCalls' = Append(setOutputCalls, <<"count", count>>)
    /\ UNCHANGED setFailedCalls

\* main.ts:44-48
Report(count) ==
    IF count # 0
    THEN /\ setOutputCalls' = Append(setOutputCalls, <<"count", count>>)
         /\ UNCHANGED setFailedCalls
    ELSE /\ setFailedCalls' = Append(setFailedCalls, "No matching version found")
         /\ UNCHANGED setOutputCalls

\* main.ts:40-48: run receives the count and reports it
ReportCount ==
    /\ pc = "returned"
    /\ Report(convertedCount)
    /\ pc' = "done"
    /\ UNCHANGED <<tree, mkdirCalls, outExists, outFiles, xmlFiles, idx, convertedCount,
                   outcomes, writes, thrown>>

\* main.ts:49-52: the catch block of run
Catch ==
    /\ pc = "caught"
    /\ IF thrown.kind = "Error"
       THEN setFailedCalls' = Append(setFailedCalls, thrown.message)
       ELSE UNCHANGED setFailedCalls
    /\ pc' = "done"
    /\ UNCHANGED <<tree, mkdirCalls, outExists, outFiles, xmlFiles, idx, convertedCount,
                   outcomes, writes, thrown, setOutputCalls>>

Next ==
    \/ (GetInputs /\ UNCHANGED sanVars)
    \/ (GetInputsThrows /\ UNCHANGED sanVars)
    \/ (OutputDirectoryExists /\ UNCHANGED sanVars)
    \/ (MkdirOutputDirectory /\ UNCHANGED sanVars)
    \/ (MkdirFails /\ UNCHANGED sanVars)
    \/ (FindFiles /\ UNCHANGED sanVars)
    \/ (ReaddirFails /\ UNCHANGED sanVars)
    \/ (ConvertReadFails /\ UNCHANGED sanVars)
    \/ (ConvertParseThrows /\ UNCHANGED sanVars)
    \/ (ConvertNotAMigrationMap /\ UNCHANGED sanVars)
    \/ (ConvertNoClassEntries /\ UNCHANGED sanVars)
    \/ (ConvertWrites /\ UNCHANGED sanVars)
    \/ (ConvertWriteFails /\ UNCHANGED sanVars)
    \/ (CoreReturns /\ UNCHANGED sanVars)
    \/ (ReportCount /\ UNCHANGED sanVars)
    \/ (Catch /\ UNCHANGED sanVars)

Spec == Init /\ [][Next]_vars

(***************************************************************************)
(* The sanitizer alone, on every short string over SanitizerChars and on   *)
(* the declared name of the test 'sanitizes special characters in recipe   *)
(* name' (rewrite.test.ts:235-257).                                        *)
(***************************************************************************)
\* "uD83D", "uDE00" stand for the two code units of one astral character
SanitizerChars == {"a", "Z", "7", "-", "_", " ", "!", ".", "@", "uD83D", "uDE00"}

\* "My Special! Migration @v1.0"
TestDeclaredName ==
    <<"M", "y", " ", "S", "p", "e", "c", "i", "a", "l", "!", " ", "M", "i", "g",
      "r", "a", "t", "i", "o", "n", " ", "@", "v", "1", ".", "0">>

\* "My-Special--Migration--v1-0"
TestRecipeName ==
    <<"M", "y", "-", "S", "p", "e", "c", "i", "a", "l", "-", "-", "M", "i", "g",
      "r", "a", "t", "i", "o", "n", "-", "-", "v", "1", "-", "0">>

InitSanitize ==
    /\ sx \in SeqsUpTo(SanitizerChars, MaxNameLen) \cup {TestDeclaredName}
    /\ sy = Undefined
    /\ sz = Undefined
    /\ tree = <<>>
    /\ outExists = FALSE
    /\ outFiles = NoFiles
    /\ pc = "sanitize"
    /\ xmlFiles = <<>>
    /\ idx = 1
    /\ convertedCount = 0
    /\ outcomes = <<>>
    /\ writes = <<>>
    /\ thrown = NoThrow
    /\ setFailedCalls = <<>>
    /\ setOutputCalls = <<>>
    /\ mkdirCalls = 0

\* rewrite.ts:118 / 122 applied to the input
SanitizeInput ==
    /\ sy = Undefined
    /\ sy' = Sanitize(sx)
    /\ UNCHANGED <<sx, sz>>

\* the same applied to the result
SanitizeAgain ==
    /\ sy # Undefined
    /\ sz = Undefined
    /\ sz' = Sanitize(sy)
    /\ UNCHANGED <<sx, sy>>

NextSanitize ==
    \/ (SanitizeInput /\ UNCHANGED pipeVars)
    \/ (SanitizeAgain /\ UNCHANGED pipeVars)

SpecSanitize == InitSanitize /\ [][NextSanitize]_vars

(***************************************************************************)
(* What the claims speak of, stated on the input and not through the       *)
(* operators above.                                                        *)
(***************************************************************************)
\* the document of the k-th discovered file
DocOf(k) == DocAt(tree, xmlFiles[k])

\* the file name (last path component) of the k-th discovered file
FileNameOf(k) == xmlFiles[k][Len(xmlFiles[k])]

\* a document's entries of kind "class", in the order of the file
ClassKind(doc) == SelectSeq(doc.items, LAMBDA e : e._type = "class")

\* the root is a migration map holding at least one entry of kind "class"
Convertible(doc) == doc.kind = "map" /\ ClassKind(doc) # <<>>

\* the three ways of not being convertible: another root, no entry list,
\* no entry of kind "class"
NotConvertible(doc) ==
    \/ doc.kind = "other"
    \/ doc.kind = "map" /\ ClassKind(doc) = <<>>

WritesOf(k) == {j \in 1..Len(writes) : writes[j].src = k}

FailureOutcomes == {"readError", "parseError", "writeError"}

\* the number of files under a directory, at any depth, whose name ends in
\* .xml whatever the case of the letters
RECURSIVE XmlFileCount(_)
XmlFileCount(entries) ==
    IF entries = <<>> THEN 0
    ELSE LET e == Head(entries)
         IN  (IF e.isDir THEN XmlFileCount(e.kids)
              ELSE IF Len(e.name) > 4 /\ EndsWith(ToLowerCase(e.name), DotXml) THEN 1
              ELSE 0) + XmlFileCount(Tail(entries))

(***************************************************************************)
(* C1                                                                      *)
(***************************************************************************)
\* C1: for every processed file whose root is a migration map with at least
\* one class-kind entry, and whose read and write did not end in an exception
\* (those are C3's skips), convert completed exactly one write of a recipe
\* file, the file is in the output directory, and the recipe's rule list is,
\* in the order of the file, one rule per class-kind entry carrying its old
\* name, its new name and ignoreDefinition = TRUE, and nothing else.
C1_OneRulePerClassEntry ==
    \A k \in 1..Len(outcomes) :
        (Convertible(DocOf(k)) /\ outcomes[k] \notin {"readError", "writeError"}) =>
            /\ outcomes[k] = "written"
            /\ Cardinality(WritesOf(k)) = 1
            /\ \A j \in WritesOf(k) :
                 LET rules == writes[j].recipe.recipeList
                     cls == ClassKind(DocOf(k))
                 IN  /\ writes[j].name \in DOMAIN outFiles
                     /\ Len(rules) = Len(cls)
                     /\ \A i \in 1..Len(cls) :
                          /\ rules[i].oldFullyQualifiedTypeName = cls[i]._oldName
                          /\ rules[i].newFullyQualifiedTypeName = cls[i]._newName
                          /\ rules[i].ignoreDefinition = TRUE

\* the mixed map of rewrite.test.ts:140-165 (class, package, class) has been
\* written with the two class rules in order
C1_Witness ==
    \E j \in 1..Len(writes) :
        /\ DocOf(writes[j].src).items = <<EntryA, EntryP, EntryB>>
        /\ Len(writes[j].recipe.recipeList) = 2
        /\ writes[j].recipe.recipeList[1].oldFullyQualifiedTypeName = "com.example.OldA"
        /\ writes[j].recipe.recipeList[2].newFullyQualifiedTypeName = "com.example.NewB"

(***************************************************************************)
(* C2                                                                      *)
(***************************************************************************)
\* C2: the loop iteration of a file that is not convertible (another root,
\* no entry list, no class-kind entry) leaves the output directory and the
\* list of writes as they were, does not change the count, and does not
\* leave the loop through an exception.
C2_NotConvertibleIsSkipped ==
    [][(InLoop /\ NotConvertible(CurrentDoc)) =>
          /\ outFiles' = outFiles
          /\ writes' = writes
          /\ convertedCount' = convertedCount
          /\ idx' = idx + 1
          /\ pc' = "loop"
          /\ thrown' = NoThrow]_vars

\* a map without a class-kind entry and then a file with another root have
\* both been skipped, and nothing was written or counted
C2_Witness ==
    /\ outcomes = <<"noClass", "notMap">>
    /\ DocOf(1).kind = "map" /\ DocOf(1).items = <<EntryP>>
    /\ DocOf(2).kind = "other"
    /\ writes = <<>>
    /\ convertedCount = 0

(***************************************************************************)
(* C3                                                                      *)
(***************************************************************************)
\* C3: an iteration that ends in an exception (read, parse or write) leaves
\* the count as it was and moves on to the next file; the loop is never left
\* other than by returning; and when convert returns every discovered file
\* has had its iteration.
C3_FileErrorsAreSkips ==
    [][/\ (InLoop /\ Len(outcomes') > Len(outcomes)
              /\ outcomes'[Len(outcomes')] \in FailureOutcomes) =>
             (convertedCount' = convertedCount /\ idx' = idx + 1 /\ pc' = "loop")
       /\ (pc = "loop") => (pc' \in {"loop", "returned"} /\ thrown' = NoThrow)
       /\ (pc' = "returned") => (Len(outcomes') = Len(xmlFiles'))]_vars

\* convert has returned after a first file that failed and a second that
\* was then written
C3_Witness ==
    /\ pc = "returned"
    /\ Len(outcomes) = 2
    /\ outcomes[1] \in FailureOutcomes
    /\ outcomes[2] = "written"
    /\ convertedCount = 1

(***************************************************************************)
(* C4                                                                      *)
(***************************************************************************)
\* C4: the number convert returns is the number of writes of a recipe file
\* that completed in this call (as many as there are files whose iteration
\* ended "written"); when the input tree holds no .xml file it is 0 and no
\* step changes the output directory's files.
C4_CountIsWrites ==
    [][/\ (pc' = "returned") =>
             /\ convertedCount' = Len(writes')
             /\ convertedCount' =
                  Cardinality({k \in 1..Len(outcomes') : outcomes'[k] = "written"})
             /\ \A k \in 1..Len(outcomes') :
                  Cardinality({j \in 1..Len(writes') : writes'[j].src = k}) =
                     (IF outcomes'[k] = "written" THEN 1 ELSE 0)
       /\ (XmlFileCount(tree) = 0) =>
             /\ outFiles' = outFiles
             /\ (pc' = "returned") => (convertedCount' = 0)]_vars

\* convert has returned 2 for a tree of two convertible files
C4_Witness ==
    /\ pc = "returned"
    /\ convertedCount = 2
    /\ Len(xmlFiles) = 2
    /\ Len(writes) = 2

(***************************************************************************)
(* C5                                                                      *)
(***************************************************************************)
IsPrefix(p, q) == Len(p) <= Len(q) /\ SubSeq(q, 1, Len(p)) = p

\* the recipe and the file of a write are named after the sanitized name n
NamedAfter(w, n) ==
    /\ w.recipe.displayName = n
    /\ w.recipe.name = NamespacePrefix \o n
    /\ w.name = n \o DotYml

\* C5 as stated: whenever the descriptor has a name element with a value
\* attribute, the recipe name and the output file name are those of the
\* sanitized declared name.
C5_DeclaredNameAlwaysWins ==
    \A j \in 1..Len(writes) :
        LET doc == DocOf(writes[j].src)
        IN  doc.name = "value" => NamedAfter(writes[j], Sanitize(doc.value))

\* C5 as amended: when the declared name is a non-empty string the recipe
\* name and the output file name are those of the sanitized declared name;
\* when it is absent or empty they are a sanitized leading part of the
\* file's own name.
C5_NonEmptyDeclaredNameWins ==
    \A j \in 1..Len(writes) :
        LET doc == DocOf(writes[j].src)
            w == writes[j]
        IN  /\ (doc.name = "value" /\ doc.value # <<>>) =>
                  NamedAfter(w, Sanitize(doc.value))
            /\ (doc.name # "value" \/ doc.value = <<>>) =>
                  /\ IsPrefix(w.recipe.displayName, Sanitize(FileNameOf(w.src)))
                  /\ w.recipe.displayName # <<>>
                  /\ NamedAfter(w, w.recipe.displayName)

\* a.xml declaring "T M" has been written as T-M.yml, and not as a.yml
C5_Witness ==
    \E j \in 1..Len(writes) :
        /\ DocOf(writes[j].src).name = "value"
        /\ DocOf(writes[j].src).value = <<"T", " ", "M">>
        /\ FileNameOf(writes[j].src) = <<"a", ".", "x", "m", "l">>
        /\ writes[j].name = <<"T", "-", "M", ".", "y", "m", "l">>
        /\ writes[j].recipe.displayName = <<"T", "-", "M">>

(***************************************************************************)
(* C6                                                                      *)
(***************************************************************************)
\* a file name without its extension (the last dot and what follows)
StripExtension(n) == IF LastDot(n) <= 1 THEN n ELSE SubSeq(n, 1, LastDot(n) - 1)

\* C6: for every written file without a declared name, the recipe name is
\* the sanitized file name with its extension stripped.
C6_ExtensionNeverInName ==
    \A j \in 1..Len(writes) :
        LET doc == DocOf(writes[j].src)
        IN  doc.name = "none" =>
               NamedAfter(writes[j], Sanitize(StripExtension(FileNameOf(writes[j].src))))

(***************************************************************************)
(* C7                                                                      *)
(***************************************************************************)
AllowedInNames == UpperAZ \cup LowerAZ \cup Digits09 \cup {"-", "_"}

\* C7: the sanitizer's result has the length of its input; at each position
\* it holds the input's character when that is one of A-Z, a-z, 0-9, - and
\* _, and one "-" otherwise; it holds allowed characters only; and
\* sanitizing it again gives it back.
C7_SanitizeSubstitutes ==
    /\ sy # Undefined =>
          /\ Len(sy) = Len(sx)
          /\ \A i \in 1..Len(sx) :
                /\ sy[i] = (IF sx[i] \in AllowedInNames THEN sx[i] ELSE "-")
                /\ sy[i] \in AllowedInNames
    /\ sz # Undefined => sz = sy

\* the declared name of rewrite.test.ts:239 has been sanitized twice; its
\* runs of two disallowed characters ("! ", " @") gave two dashes each
C7_Witness ==
    /\ sx = TestDeclaredName
    /\ sy = TestRecipeName
    /\ sz = TestRecipeName

(***************************************************************************)
(* C8                                                                      *)
(***************************************************************************)
\* C8: every recipe convert writes carries the tag list (fabric, migration).
C8_EveryRecipeIsTagged ==
    \A j \in 1..Len(writes) :
        /\ "tags" \in DOMAIN writes[j].recipe
        /\ writes[j].recipe.tags = <<"fabric", "migration">>

(***************************************************************************)
(* C9                                                                      *)
(***************************************************************************)
\* C9: when run is over and the core returned normally, run has reported
\* exactly once: a count above 0 as the output "count" and no failure, a
\* count of 0 as one failure and no output.
C9_OneOutcomePerRun ==
    (pc = "done" /\ thrown = NoThrow) =>
        /\ Len(setOutputCalls) + Len(setFailedCalls) = 1
        /\ convertedCount > 0 =>
              (setOutputCalls = <<<<"count", convertedCount>>>> /\ setFailedCalls = <<>>)
        /\ convertedCount = 0 =>
              (setOutputCalls = <<>> /\ Len(setFailedCalls) = 1)

\* run is over with two recipes written and the output count = 2
C9_Witness ==
    /\ pc = "done"
    /\ thrown = NoThrow
    /\ convertedCount = 2
    /\ setOutputCalls = <<<<"count", 2>>>>
    /\ setFailedCalls = <<>>

\* run is over after nothing was convertible: one failure, no output
C9_WitnessZero ==
    /\ pc = "done"
    /\ thrown = NoThrow
    /\ Len(xmlFiles) > 0
    /\ convertedCount = 0
    /\ setOutputCalls = <<>>
    /\ Len(setFailedCalls) = 1

C11_DirectoryFirstOrAbort ==
    [][/\ (pc' \in {"find", "loop", "returned"}) => outExists'
       /\ mkdirCalls' <= 1
       /\ (mkdirCalls' # mkdirCalls \/ outExists' # outExists) =>
             /\ pc = "ensureOut" /\ ~outExists
             /\ mkdirCalls' = 1
             /\ xmlFiles = <<>> /\ outcomes = <<>> /\ writes = <<>>
       /\ (outFiles' # outFiles \/ writes' # writes) => (InLoop /\ outExists)
       /\ (pc = "ensureOut" /\ ~outExists') => (pc' = "caught" /\ thrown' # NoThrow)
       /\ (pc = "find") => (pc' = "loop" \/ (pc' = "caught" /\ thrown' # NoThrow))
       /\ (thrown' # NoThrow) =>
             /\ pc' \in {"caught", "done"}
             /\ xmlFiles' = <<>> /\ outcomes' = <<>> /\ writes' = <<>>
             /\ outFiles' = outFiles]_vars

\* convert has returned after creating the missing output directory with
\* its one mkdir call and then writing a recipe into it
C11_Witness ==
    /\ pc = "returned"
    /\ mkdirCalls = 1
    /\ outExists
    /\ Len(writes) >= 1
    /\ writes[1].name \in DOMAIN outFiles

\* the call has ended in run's catch after mkdir failed: nothing enumerated,
\* nothing written
C11_WitnessAbort ==
    /\ pc = "caught"
    /\ mkdirCalls = 1
    /\ ~outExists
    /\ thrown # NoThrow
    /\ xmlFiles = <<>>
    /\ writes = <<>>

(***************************************************************************)
(* C12                                                                     *)
(***************************************************************************)
\* C12: when convert has returned, every file of the output directory holds
\* the complete text of a recipe, and the file an earlier run left is either
\* as it was or was replaced by a completed write.
C12_NoPartialFiles ==
    (pc = "returned") =>
        /\ \A n \in DOMAIN outFiles : outFiles[n].complete
        /\ \A n \in DOMAIN outFiles :
              \/ outFiles[n] = StaleFile /\ n = StaleName
              \/ \E j \in 1..Len(writes) :
                    writes[j].name = n /\ writes[j].recipe = outFiles[n].recipe

(***************************************************************************)
(* C13                                                                     *)
(***************************************************************************)
\* every entry that is not a directory, at any depth below a directory, with
\* its path and whether it is a regular file
RECURSIVE NonDirectories(_, _)
NonDirectories(directory, entries) ==
    IF entries = <<>> THEN {}
    ELSE LET e == Head(entries)
             p == Append(directory, e.name)
         IN  (IF e.isDir THEN NonDirectories(p, e.kids)
              ELSE {[path |-> p, isFile |-> e.isFile]})
             \cup NonDirectories(directory, Tail(entries))

\* the name has the extension .xml, whatever the case of its letters
HasXmlExtension(n) == Len(n) > 4 /\ EndsWith(ToLowerCase(n), DotXml)

Located == {xmlFiles[k] : k \in 1..Len(xmlFiles)}

Enumerated == pc \in {"loop", "returned"} \/ (pc = "done" /\ thrown = NoThrow)

\* a discovered convertible descriptor whose read and write completed has
\* been written, under a name without a path separator, into the output
\* directory itself; and the count convert returns covers all of them
DiscoveredAreConverted ==
    /\ \A k \in 1..Len(outcomes) :
          (Convertible(DocOf(k)) /\ outcomes[k] \notin {"readError", "writeError"}) =>
              /\ outcomes[k] = "written"
              /\ \E j \in WritesOf(k) :
                    /\ writes[j].name \in DOMAIN outFiles
                    /\ \A i \in 1..Len(writes[j].name) : writes[j].name[i] # "/"
    /\ (pc = "returned") =>
          convertedCount = Cardinality({k \in 1..Len(outcomes) : outcomes[k] = "written"})

\* C13 as stated: the list the locator returned holds every regular file
\* under the input root with the extension .xml, each once, and no other
\* file; and the discovered convertible descriptors are converted, counted
\* and written flat.
C13_LocatesRegularFilesOnly ==
    Enumerated =>
        /\ Located = {x.path : x \in {y \in NonDirectories(<<>>, tree) :
                                         y.isFile /\ HasXmlExtension(y.path[Len(y.path)])}}
        /\ Cardinality(Located) = Len(xmlFiles)
        /\ DiscoveredAreConverted

\* C13 as amended: the list holds every entry under the input root that is
\* not a directory (a regular file, or a symbolic link or special file) and
\* has the extension .xml, each once, and nothing else; and the discovered
\* convertible descriptors are converted, counted and written flat.
C13_LocatesNonDirectories ==
    Enumerated =>
        /\ Located = {x.path : x \in {y \in NonDirectories(<<>>, tree) :
                                         HasXmlExtension(y.path[Len(y.path)])}}
        /\ Cardinality(Located) = Len(xmlFiles)
        /\ DiscoveredAreConverted

\* the descriptor sub/sub/a.xml, two directories deep beside a .txt file,
\* has been found, written as T-M.yml in the output directory, and counted
C13_Witness ==
    /\ pc = "returned"
    /\ \E k \in 1..Len(xmlFiles) :
          /\ xmlFiles[k] = <<SubDirName, SubDirName, <<"a", ".", "x", "m", "l">>>>
          /\ outcomes[k] = "written"
          /\ \E j \in WritesOf(k) : writes[j].name = <<"T", "-", "M", ".", "y", "m", "l">>
    /\ <<"T", "-", "M", ".", "y", "m", "l">> \in DOMAIN outFiles
    /\ convertedCount >= 1

====
